---- MODULE Spec2Model ----
(***************************************************************************)
(* Model of dash_videogame.py, a Streamlit dashboard over a static table   *)
(* of video game sales.  Streamlit executes the whole script from top to   *)
(* bottom once at start-up and once more after every widget event; the     *)
(* values of the three sidebar widgets survive between runs in the         *)
(* session's widget state.  One run of the script is one action.           *)
(***************************************************************************)
EXTENDS Integers, Sequences, FiniteSets, TLC

VARIABLES
    df,                 \* the table read at line 14: a sequence of rows
    platforms,          \* line 22
    year_range,         \* line 20: <<low, high>>, <<>> while unbound
    selected_platform,  \* line 23
    genres,             \* line 25: the set of df[...]["Genre"].unique()
    selected_genre,     \* line 26
    filtered_df,        \* lines 29-34: the row labels kept, in row order
    total_sales,        \* line 39: filtered_df['Global_Sales'].sum()
    total_games,        \* line 40: filtered_df.shape[0]
    top_publisher,      \* line 41
    top_games,          \* line 48: row labels
    pie_df,             \* line 66: row labels
    status,             \* how the last run of the script ended
    event               \* the widget event that started the last run

vars == <<df, platforms, year_range, selected_platform, genres, selected_genre,
          filtered_df, total_sales, total_games, top_publisher, top_games,
          pie_df, status, event>>

----------------------------------------------------------------------------
(* Bounds and program constants *)

\* Largest number of rows of a small table.
MaxRows == 4
\* A large table has up to HeadN + MaxExtra rows,
MaxExtra == 1
\* of which at most MaxTies sell exactly as much as the row before.
MaxTies == 1

\* value=(1980, 2020) of the year slider.
DefaultLow == 1980
DefaultHigh == 2020
\* .head(10) of the top games panel.
HeadN == 10

\* The None a selectbox without options returns.
None == "None"

\* A name the run has not bound (it stopped before the assignment).
Undefined == "undefined"

\* Year is absent (NaN) in a row: <<>>; present: <<y>>.
NaN == <<>>

----------------------------------------------------------------------------
(* Strings compare lexicographically in Python; the names used here, in    *)
(* that order.                                                             *)
Alphabetical == <<"DS", "Nintendo", "Racing", "Sega", "Sports", "Wii">>

Min(a, b) == IF a <= b THEN a ELSE b
Max(a, b) == IF a >= b THEN a ELSE b

\* sorted(...) of a collection of strings.
sorted(S) == SelectSeq(Alphabetical, LAMBDA s : s \in S)

\* sorted(...) of a collection of integers.
RECURSIVE sorted_int(_)
sorted_int(S) ==
    IF S = {} THEN <<>>
    ELSE LET m == CHOOSE x \in S : \A y \in S : x <= y
         IN <<m>> \o sorted_int(S \ {m})

----------------------------------------------------------------------------
(* pandas *)

\* df[col].unique(): the distinct values of a column over the rows `rows`.
unique(d, rows, col) == {d[i][col] : i \in rows}

\* df["Year"].dropna().unique()
dropna_years(d) == {d[i].Year[1] : i \in {j \in DOMAIN d : d[j].Year # NaN}}

\* df["Year"] >= v and df["Year"] <= v for one row: a comparison with NaN is False.
year_ge(row, v) == row.Year # NaN /\ row.Year[1] >= v
\* year_le with the upper end of the range left out.
year_le_strict(row, v) == row.Year # NaN /\ row.Year[1] < v
year_le(row, v) == row.Year # NaN /\ row.Year[1] <= v

\* df[mask]: the labels of the rows whose mask is True, in row order.
RECURSIVE bool_index(_, _)
bool_index(mask, n) ==
    IF n = 0 THEN <<>>
    ELSE IF mask[n] THEN Append(bool_index(mask, n - 1), n)
         ELSE bool_index(mask, n - 1)

\* Series.sum() over the rows `rows` (a sequence of labels); 0 when empty.
RECURSIVE col_sum(_, _)
col_sum(d, rows) ==
    IF rows = <<>> THEN 0
    ELSE d[Head(rows)].Global_Sales + col_sum(d, Tail(rows))

Range(s) == {s[i] : i \in DOMAIN s}

\* .head(n)
head(s, n) == SubSeq(s, 1, Min(n, Len(s)))

\* DataFrame.sort_values(by="Global_Sales", ascending=False) of the rows with
\* labels S.  The default kind is "quicksort", which is not a stable sort:
\* rows with equal Global_Sales come out in an order the sort does not fix,
\* so every descending arrangement is a possible result.
RECURSIVE sort_values(_, _)
sort_values(d, S) ==
    IF S = {} THEN {<<>>}
    ELSE LET first == {i \in S : \A j \in S : d[j].Global_Sales <= d[i].Global_Sales}
         IN UNION {{<<i>> \o t : t \in sort_values(d, S \ {i})} : i \in first}

\* groupby("Publisher")["Global_Sales"].sum(): the publishers of the rows in
\* sorted order, and the sum of each one.
groupby_keys(d, rows) == sorted(unique(d, Range(rows), "Publisher"))
groupby_sum(d, rows, publisher) ==
    col_sum(d, SelectSeq(rows, LAMBDA i : d[i].Publisher = publisher))

\* Series.idxmax(): the label of the first largest entry.  It raises
\* ValueError on an empty Series, which is reported here as raised = TRUE.
idxmax(d, rows) ==
    LET keys == groupby_keys(d, rows)
    IN IF keys = <<>> THEN [raised |-> TRUE, label |-> Undefined]
       ELSE LET k == CHOOSE a \in DOMAIN keys :
                       /\ \A b \in DOMAIN keys :
                            groupby_sum(d, rows, keys[b]) <= groupby_sum(d, rows, keys[a])
                       /\ \A b \in 1..(a - 1) :
                            groupby_sum(d, rows, keys[b]) < groupby_sum(d, rows, keys[a])
            IN [raised |-> FALSE, label |-> keys[k]]

----------------------------------------------------------------------------
(* Streamlit widgets.  A widget without a key is identified by its type    *)
(* and parameters (label, options, bounds, default); its value is kept     *)
(* from one run to the next as long as the same widget is created again.   *)

\* st.slider(label, min_value, max_value, value): the bounds are widened so
\* that they contain the default value.
slider_bounds(min_value, max_value, value) ==
    <<Min(value[1], Min(min_value, max_value)),
      Max(value[2], Max(min_value, max_value))>>

\* The value the slider returns: the stored one, the default on the first run.
slider(min_value, max_value, value, stored) ==
    IF stored = <<>> THEN value ELSE stored

\* selectbox that keeps the stored value whatever the options are.
selectbox_sticky(options, stored) ==
    IF options = <<>> THEN None
    ELSE IF stored.value # None THEN stored.value ELSE options[1]

\* selectbox that keeps the stored value whenever it is among the options.
selectbox_by_value(options, stored) ==
    IF options = <<>> THEN None
    ELSE IF stored.value \in Range(options) THEN stored.value ELSE options[1]

\* st.selectbox(label, options): None without options; the stored value when
\* the widget was created with the same options in the previous run; the
\* first option (index 0) otherwise.
selectbox(options, stored) ==
    IF options = <<>> THEN None
    ELSE IF stored.options = options /\ stored.value \in Range(options)
         THEN stored.value
         ELSE options[1]

\* The widget state of a session before the first run.
NoWidgets ==
    [slider |-> <<>>,
     platform |-> [options |-> <<>>, value |-> None],
     genre |-> [options |-> <<>>, value |-> None]]

----------------------------------------------------------------------------
(* The script *)

\* Lines 19-20: years, and the values the slider is created with.
years(d) == sorted_int(dropna_years(d))

\* platform_options with a fixed list in place of the platforms of the table.
platform_options_fixed(d) == <<"DS", "Wii">>

\* Line 22.
platform_options(d) == sorted(unique(d, DOMAIN d, "Platform"))

\* Lines 29-34.
filter(d, yr, platform, genre) ==
    bool_index([i \in DOMAIN d |->
                    /\ year_ge(d[i], yr[1])
                    /\ year_le(d[i], yr[2])
                    /\ d[i].Platform = platform
                    /\ d[i].Genre = genre],
               Len(d))

\* genres_of over the rows that have a year only.
genres_of_dropna(d, platform) ==
    unique(d, {i \in DOMAIN d : d[i].Platform = platform /\ d[i].Year # NaN}, "Genre")

\* Line 25.
genres_of(d, platform) ==
    unique(d, {i \in DOMAIN d : d[i].Platform = platform}, "Genre")

\* platform_rows without the rows that have no year.
platform_rows_dropna(d, platform) ==
    bool_index([i \in DOMAIN d |-> d[i].Platform = platform /\ d[i].Year # NaN], Len(d))

\* Line 66.
platform_rows(d, platform) ==
    bool_index([i \in DOMAIN d |-> d[i].Platform = platform], Len(d))

\* top_n without the sort.
top_n_unsorted(d, rows) == {head(rows, HeadN)}

\* Line 48.
top_n(d, rows) == {head(s, HeadN) : s \in sort_values(d, Range(rows))}

\* The names a run leaves unbound when it stops at line 20.
Unbound(d) ==
    [df |-> d, platforms |-> <<>>, year_range |-> <<>>,
     selected_platform |-> Undefined, genres |-> {},
     selected_genre |-> Undefined, filtered_df |-> <<>>,
     total_sales |-> 0, total_games |-> 0, top_publisher |-> Undefined,
     top_games |-> <<>>, pie_df |-> <<>>, status |-> "ValueError@20"]

\* One run of the script over table d with widget state w: the set of the
\* final bindings it can end with.
Script(d, w) ==
    LET ys == years(d)
    IN IF ys = <<>>
       THEN \* min(years) of an empty list raises ValueError
            {Unbound(d)}
       ELSE
       LET yr  == slider(ys[1], ys[Len(ys)], <<DefaultLow, DefaultHigh>>, w.slider)
           ps  == platform_options(d)
           sp  == selectbox(ps, w.platform)
           gs  == genres_of(d, sp)
           sg  == selectbox(sorted(gs), w.genre)
           fd  == filter(d, yr, sp, sg)
           top == idxmax(d, fd)
           sidebar ==
               [df |-> d, platforms |-> ps, year_range |-> yr,
                selected_platform |-> sp, genres |-> gs, selected_genre |-> sg,
                filtered_df |-> fd, total_sales |-> col_sum(d, fd),
                total_games |-> Len(fd), top_publisher |-> Undefined,
                top_games |-> <<>>, pie_df |-> <<>>, status |-> "ValueError@41"]
       IN IF top.raised
          THEN {sidebar}
          ELSE {[sidebar EXCEPT !.top_publisher = top.label,
                                !.top_games = tg,
                                !.pie_df = platform_rows(d, sp),
                                !.status = "done"] : tg \in top_n(d, fd)}

\* The widget state the session holds after a run.
Widgets ==
    IF status = "ValueError@20" THEN NoWidgets
    ELSE [slider |-> year_range,
          platform |-> [options |-> platforms, value |-> selected_platform],
          genre |-> [options |-> sorted(genres), value |-> selected_genre]]

Bind(r, e) ==
    /\ df = r.df
    /\ platforms = r.platforms
    /\ year_range = r.year_range
    /\ selected_platform = r.selected_platform
    /\ genres = r.genres
    /\ selected_genre = r.selected_genre
    /\ filtered_df = r.filtered_df
    /\ total_sales = r.total_sales
    /\ total_games = r.total_games
    /\ top_publisher = r.top_publisher
    /\ top_games = r.top_games
    /\ pie_df = r.pie_df
    /\ status = r.status
    /\ event = e

\* A rerun of the script with widget state w, started by event e.
Rerun(w, e) ==
    \E r \in Script(df, w) :
        /\ df' = r.df
        /\ platforms' = r.platforms
        /\ year_range' = r.year_range
        /\ selected_platform' = r.selected_platform
        /\ genres' = r.genres
        /\ selected_genre' = r.selected_genre
        /\ filtered_df' = r.filtered_df
        /\ total_sales' = r.total_sales
        /\ total_games' = r.total_games
        /\ top_publisher' = r.top_publisher
        /\ top_games' = r.top_games
        /\ pie_df' = r.pie_df
        /\ status' = r.status
        /\ event' = e

\* The positions of the year slider a user moves its ends to: the ends of
\* the track, the default ends and the years of the table.
slider_ticks(d) ==
    LET ys == years(d)
        b  == slider_bounds(ys[1], ys[Len(ys)], <<DefaultLow, DefaultHigh>>)
    IN {y \in {b[1], b[2], DefaultLow, DefaultHigh} \cup dropna_years(d) :
            b[1] <= y /\ y <= b[2]}

\* The user drags the ends of the year slider to another pair of positions;
\* the two ends cannot cross.
SetYearRange ==
    /\ status # "ValueError@20"
    /\ \E low \in slider_ticks(df), high \in slider_ticks(df) :
          /\ low <= high
          /\ <<low, high>> # year_range
          /\ Rerun([Widgets EXCEPT !.slider = <<low, high>>], "year")

\* The user picks another one of the options of the platform box.
SetPlatform ==
    /\ status # "ValueError@20"
    /\ \E p \in Range(platforms) :
          /\ p # selected_platform
          /\ Rerun([Widgets EXCEPT !.platform.value = p], "platform")

\* The user picks another one of the options of the genre box.
SetGenre ==
    /\ status # "ValueError@20"
    /\ \E g \in Range(sorted(genres)) :
          /\ g # selected_genre
          /\ Rerun([Widgets EXCEPT !.genre.value = g], "genre")

Next == SetYearRange \/ SetPlatform \/ SetGenre

----------------------------------------------------------------------------
(* Tables *)

\* The rows small tables are made of: every platform, genre and year of
\* these, the year absent in a third of them.
PoolPlatforms == <<"DS", "Wii">>
PoolGenres == <<"Racing", "Sports">>
PoolYears == <<NaN, <<1990>>, <<2021>>>>
Pool ==
    [k \in 1..(Len(PoolPlatforms) * Len(PoolGenres) * Len(PoolYears)) |->
        LET y == ((k - 1) % Len(PoolYears)) + 1
            g == (((k - 1) \div Len(PoolYears)) % Len(PoolGenres)) + 1
            p == ((k - 1) \div (Len(PoolYears) * Len(PoolGenres))) + 1
        IN [Platform |-> PoolPlatforms[p], Year |-> PoolYears[y],
            Genre |-> PoolGenres[g],
            Publisher |-> IF y = 2 THEN "Sega" ELSE "Nintendo",
            Global_Sales |-> IF y = 1 THEN 4 ELSE 2]]

\* The tables of at most MaxRows different rows of the pool (the empty one too).
SmallTables ==
    {SelectSeq(Pool, LAMBDA r : r \in S) :
        S \in {T \in SUBSET Range(Pool) : Cardinality(T) <= MaxRows}}

\* A table whose first n rows are of one platform, genre and year, with
\* sales that rise by one from row to row, except at the rows of `ties`,
\* which sell as much as the row before; `falling` turns the sales around.
\* Two more rows give the table a second genre and a second platform.
LargeTable(n, ties, falling) ==
    [i \in 1..n |->
        LET rising == i - Cardinality({t \in ties : t <= i})
        IN [Platform |-> "DS", Year |-> <<1990>>, Genre |-> "Racing",
            Publisher |-> IF i % 2 = 0 THEN "Sega" ELSE "Nintendo",
            Global_Sales |-> IF falling THEN n + 1 - rising ELSE rising]]
    \o <<[Platform |-> "DS", Year |-> <<1990>>, Genre |-> "Sports",
          Publisher |-> "Sega", Global_Sales |-> 2],
         [Platform |-> "Wii", Year |-> NaN, Genre |-> "Racing",
          Publisher |-> "Nintendo", Global_Sales |-> 4]>>

LargeTables ==
    {LargeTable(n, ties, falling) :
        n \in (HeadN - 1)..(HeadN + MaxExtra),
        ties \in {T \in SUBSET (2..(HeadN + MaxExtra)) : Cardinality(T) <= MaxTies},
        falling \in BOOLEAN}

\* The first run of the script in a new session.
Init == \E d \in SmallTables : \E r \in Script(d, NoWidgets) : Bind(r, "start")

Spec == Init /\ [][Next]_vars

InitTop == \E d \in LargeTables : \E r \in Script(d, NoWidgets) : Bind(r, "start")

SpecTop == InitTop /\ [][Next]_vars

----------------------------------------------------------------------------
(* Properties *)

\* The run got past the sidebar: the three widgets exist and the filter
\* state (year_range, selected_platform, selected_genre) is bound.
Rendered == status # "ValueError@20"

\* The years present in the table.
ObservedYears == {df[i].Year[1] : i \in {j \in DOMAIN df : df[j].Year # NaN}}

\* The records a filter state selects, as the data model defines them.
Matching ==
    {i \in DOMAIN df :
        /\ df[i].Year # NaN
        /\ year_range[1] <= df[i].Year[1]
        /\ df[i].Year[1] <= year_range[2]
        /\ df[i].Platform = selected_platform
        /\ df[i].Genre = selected_genre}

\* The distinct genres of the records of a platform.
GenreDomain(p) == {df[i].Genre : i \in {j \in DOMAIN df : df[j].Platform = p}}

\* The distinct platforms of the table.
PlatformDomain == {df[i].Platform : i \in DOMAIN df}

\* C1: in every filter state the script computes, at start-up and after any
\* sequence of widget events, the selected genre is one of the genres of the
\* records of the selected platform, and it is this state the filter of
\* lines 29-34 reads.
CascadingInvariant ==
    Rendered =>
        /\ selected_genre \in GenreDomain(selected_platform)
        /\ genres = GenreDomain(selected_platform)

\* A platform change between two platforms that share no genre.
CascadingWitness ==
    /\ event = "platform"
    /\ selected_platform = "Wii"
    /\ Rendered
    /\ "DS" \in PlatformDomain
    /\ GenreDomain("DS") \cap GenreDomain("Wii") = {}

\* C2: the filtered view holds exactly the records with
\* low <= Year <= high, Platform = platform and Genre = genre, each once.
FilteredViewExact ==
    Rendered =>
        /\ Range(filtered_df) = Matching
        /\ \A a \in DOMAIN filtered_df : \A b \in DOMAIN filtered_df :
              a # b => filtered_df[a] # filtered_df[b]

\* A view of one record whose year is the upper end of the range, in a table
\* that has a record of the same platform and genre outside the range and
\* one without a year.
FilteredViewWitness ==
    /\ Rendered
    /\ Len(filtered_df) = 1
    /\ df[filtered_df[1]].Year[1] = year_range[2]
    /\ \E i \in DOMAIN df :
          /\ df[i].Platform = selected_platform /\ df[i].Genre = selected_genre
          /\ df[i].Year = NaN
    /\ \E i \in DOMAIN df :
          /\ df[i].Platform = selected_platform /\ df[i].Genre = selected_genre
          /\ df[i].Year # NaN
          /\ df[i].Year[1] > year_range[2]

\* C3: when the filtered view is empty the summary metrics are total 0,
\* count 0 and a sentinel top publisher, and the run reaches its end.
EmptyViewSummary ==
    (Rendered /\ filtered_df = <<>>) =>
        /\ total_sales = 0
        /\ total_games = 0
        /\ top_publisher \in {"N/A", None}
        /\ status = "done"

YearRangeObserved ==
    Rendered =>
        /\ year_range[1] <= year_range[2]
        /\ \E z \in ObservedYears : z <= year_range[1]
        /\ \E z \in ObservedYears : year_range[2] <= z

\* The sales of a row.
Sales(i) == df[i].Global_Sales

\* C6: the top ten of a view has min(10, |view|) records, all of the view
\* and each once, in non-increasing order of Global_Sales, and no record
\* left out sells strictly more than a record in it.
TopTenOf(view, top) ==
    /\ Len(top) = Min(HeadN, Len(view))
    /\ Len(top) <= HeadN
    /\ Range(top) \subseteq Range(view)
    /\ \A a \in DOMAIN top : \A b \in DOMAIN top : a # b => top[a] # top[b]
    /\ \A a \in DOMAIN top : \A b \in DOMAIN top :
          a < b => Sales(top[a]) >= Sales(top[b])
    /\ \A i \in Range(view) \ Range(top) : \A j \in Range(top) :
          Sales(i) <= Sales(j)

TopTen ==
    /\ status = "done" => TopTenOf(filtered_df, top_games)
    /\ Rendered => \A top \in top_n(df, filtered_df) : TopTenOf(filtered_df, top)

\* A view of more than ten records, one of those left out selling as much
\* as the last one of the top ten.
TopTenWitness ==
    /\ status = "done"
    /\ Len(filtered_df) > HeadN
    /\ Len(top_games) = HeadN
    /\ \E i \in Range(filtered_df) \ Range(top_games) :
          Sales(i) = Sales(top_games[HeadN])

\* C8: records with equal Global_Sales keep their row order in the top ten,
\* and of the records tied at the cut-off the earlier rows are the ones kept.
StableOrder ==
    status = "done" =>
        /\ \A a \in DOMAIN top_games : \A b \in DOMAIN top_games :
              (a < b /\ Sales(top_games[a]) = Sales(top_games[b]))
                  => top_games[a] < top_games[b]
        /\ \A i \in Range(filtered_df) \ Range(top_games) : \A j \in Range(top_games) :
              Sales(i) = Sales(j) => j < i

\* A run in which the platform selection changed.
PlatformChanged ==
    /\ Rendered
    /\ Rendered'
    /\ selected_platform' # selected_platform

\* C7 as stated: after a platform change the genre domain is that of the
\* new platform, the genre is reset to the first genre of the domain if the
\* previous genre is not in it and kept otherwise, and year_range is kept.
ResetOnlyOutsideDomain ==
    [][PlatformChanged =>
          /\ genres' = GenreDomain(selected_platform')
          /\ selected_genre \notin genres' => selected_genre' = sorted(genres')[1]
          /\ selected_genre \in genres' => selected_genre' = selected_genre
          /\ year_range' = year_range]_vars

\* C7 as the script behaves: the genre is reset to the first genre of the
\* new domain whenever the new domain differs from the previous one, and
\* kept when the two domains are equal.
ResetOnDomainChange ==
    [][PlatformChanged =>
          /\ genres' = GenreDomain(selected_platform')
          /\ genres' # genres => selected_genre' = sorted(genres')[1]
          /\ genres' = genres => selected_genre' = selected_genre
          /\ year_range' = year_range]_vars

\* A platform change has taken the selection from a platform whose only
\* genre is Sports to one that has Racing and Sports, and the genre is now
\* Racing although Sports is in the new domain.
ResetWitness ==
    /\ event = "platform"
    /\ Rendered
    /\ \E p \in PlatformDomain : p # selected_platform /\ GenreDomain(p) = {"Sports"}
    /\ Cardinality(PlatformDomain) = 2
    /\ genres = {"Racing", "Sports"}
    /\ selected_genre = "Racing"

\* The rows of the selected platform.
PlatformRows == {i \in DOMAIN df : df[i].Platform = selected_platform}

\* C9: the genre share and box plot panels read the records of the selected
\* platform, of every genre and year and without a year as well, and a year
\* or genre event between two runs that draw the panels leaves this input
\* as it was.
PlatformOnlyInput ==
    /\ [](status = "done" =>
            /\ Range(pie_df) = PlatformRows
            /\ Len(pie_df) = Cardinality(PlatformRows))
    /\ [][(status = "done" /\ status' = "done" /\ event' \in {"year", "genre"})
            => pie_df' = pie_df]_vars

\* After a year event the panels read more records than the filtered view
\* holds, one of another genre and one without a year among them.
PlatformOnlyWitness ==
    /\ status = "done"
    /\ event = "year"
    /\ \E i \in Range(pie_df) : df[i].Year = NaN
    /\ \E i \in Range(pie_df) : df[i].Genre # selected_genre
    /\ \E i \in Range(pie_df) : df[i].Year # NaN /\ df[i].Year[1] > year_range[2]

\* C10: a record without a year is in no filtered view, whatever the year
\* range, and yet its platform is among the platforms and its genre among
\* the genres of its platform.
AbsentYear ==
    Rendered =>
        \A i \in DOMAIN df :
            df[i].Year = NaN =>
                /\ i \notin Range(filtered_df)
                /\ df[i].Platform \in Range(platforms)
                /\ df[i].Platform = selected_platform => df[i].Genre \in genres

\* The user selected a genre whose records of the selected platform all
\* lack a year: the filter state is consistent and the filtered view empty.
AbsentYearWitness ==
    /\ Rendered
    /\ event = "genre"
    /\ selected_genre \in GenreDomain(selected_platform)
    /\ \A i \in DOMAIN df :
          (df[i].Platform = selected_platform /\ df[i].Genre = selected_genre)
              => df[i].Year = NaN
    /\ filtered_df = <<>>

====
